---- MODULE Spec2Model ----
(***************************************************************************)
(* Model of the chat-service domain entities: Chat (chat.rs) and Message   *)
(* (message.rs).  A Chat gates messages into its history against a token   *)
(* budget; the model keeps the machine-word arithmetic of usize: an        *)
(* addition that leaves the word range panics when the build has overflow  *)
(* checks (debug profile) and wraps when it has none (release profile).    *)
(***************************************************************************)
EXTENDS Integers, Sequences, FiniteSets, TLC

\* ------------------------------------------------------------------ bounds
\* Largest value of the (scaled-down) word type usize; the modulus is WordMax + 1.
WordMax == 7
\* Cap on Len(messages) + Len(erased_messages).
MaxMsgs == 2
\* Largest clock reading / created_at value.
MaxTime == 3

Modulus == WordMax + 1
Word == 0 .. WordMax
Times == 0 .. MaxTime

VARIABLES
    messages,          \* Chat.messages
    erased_messages,   \* Chat.erased_messages
    status,            \* Chat.status
    token_usage,       \* Chat.token_usage
    config,            \* Chat.config (the field the operations read: max_tokens)
    overflow_checks,   \* build profile: TRUE = arithmetic overflow panics, FALSE = wraps
    now,               \* reading of chrono::Utc::now() taken by Message::validate
    prev_op,           \* the call before the last one
    last_op,           \* the last call made by the caller
    arg,               \* the Message passed to the last call (NoMsg when none)
    result,            \* what the last call returned to the caller
    returned,          \* the value the last call returned: the Vec of get_messages, which
                       \* the caller then owns, the count, or the Message of Message::new
    total_tokens,      \* outcome of the last get_completion_max_tokens call (Message::new)
    ok_adds            \* number of add_message calls that have returned Ok(())

chat == <<messages, erased_messages, status, token_usage, config>>
vars == <<messages, erased_messages, status, token_usage, config, overflow_checks,
          now, prev_op, last_op, arg, result, returned, total_tokens, ok_adds>>

\* ------------------------------------------------------------------ values
Ok == "Ok"
Panic == "panic: attempt to add with overflow"
ErrChatStatus == "Chat status is invalid"
ErrChatTokenUsage == "Chat token usage is invalid"
ErrChatEnded == "Chat has already ended"
ErrRole == "role is invalid"
ErrContent == "content is empty"
ErrCreatedAt == "created_at is invalid"

NoMsg == [id |-> 0, role |-> "-", content |-> "-", tokens |-> 0, model |-> "-", created_at |-> 0]

Message(id, role, content, tokens, model, created_at) ==
    [id |-> id, role |-> role, content |-> content, tokens |-> tokens,
     model |-> model, created_at |-> created_at]

\* Message::clone with the token count dropped.
CloneLosingTokens(m) ==
    [id |-> m.id, role |-> m.role, content |-> m.content, tokens |-> 0,
     model |-> m.model, created_at |-> m.created_at]

\* Message::clone: a field-by-field copy.
Clone(m) ==
    [id |-> m.id, role |-> m.role, content |-> m.content, tokens |-> m.tokens,
     model |-> m.model, created_at |-> m.created_at]

\* ------------------------------------------------------------------ usize arithmetic
\* a + b on usize: the wrapped value, and whether the sum left the word range.
UsizeAdd(a, b) == [value |-> (a + b) % Modulus, overflow |-> a + b > WordMax]

RECURSIVE FoldTokens(_, _)
\* messages.iter().fold(acc, |acc, message| acc + message.tokens)
FoldTokens(acc, msgs) ==
    IF msgs = <<>>
    THEN acc
    ELSE LET s == UsizeAdd(acc.value, Head(msgs).tokens)
         IN  FoldTokens([value |-> s.value, overflow |-> acc.overflow \/ s.overflow],
                        Tail(msgs))

\* refresh_token_usage accumulating onto the old counter instead of starting from 0.
RefreshedIncremental(msgs, usage) == FoldTokens([value |-> usage, overflow |-> FALSE], msgs)

\* The fold of refresh_token_usage: starts from 0, whatever the old counter is.
Refreshed(msgs, usage) == FoldTokens([value |-> 0, overflow |-> FALSE], msgs)

\* ------------------------------------------------------------------ Chat predicates
\* The ended test comparing against the wrong literal.
IsEndedWrongLiteral(s) == s = "end"

\* add_message's guard: self.status == "ended"
IsEnded(s) == s = "ended"

\* The admission test forgetting the tokens already used.
AdmitsIgnoringUsage(max_tokens, tokens, usage) == max_tokens >= tokens

\* add_message's admission test: self.config.max_tokens >= message.tokens + self.token_usage
\* (evaluated on the wrapped sum; the overflow itself is handled by the caller of Admits).
Admits(max_tokens, tokens, usage) == max_tokens >= UsizeAdd(tokens, usage).value

\* Chat::validate with the budget boundary excluded.
ChatValidateStrict(s, usage, max_tokens) ==
    IF s # "active" /\ s # "ended" THEN ErrChatStatus
    ELSE IF usage >= max_tokens THEN ErrChatTokenUsage
    ELSE IF s # "ended" /\ s # "active" THEN ErrChatStatus
    ELSE Ok

\* Chat::validate
ChatValidate(s, usage, max_tokens) ==
    IF s # "active" /\ s # "ended" THEN ErrChatStatus
    ELSE IF usage > max_tokens THEN ErrChatTokenUsage
    ELSE IF s # "ended" /\ s # "active" THEN ErrChatStatus
    ELSE Ok

\* Message::validate with the timestamp boundary excluded.
MessageValidateStrict(m, t) ==
    LET valid_role == m.role = "user" \/ m.role = "system" \/ m.role = "assistant"
    IN  IF ~valid_role THEN ErrRole
        ELSE IF m.content = "" THEN ErrContent
        ELSE IF m.created_at >= t THEN ErrCreatedAt
        ELSE Ok

\* Message::validate, t being the reading of chrono::Utc::now()
MessageValidate(m, t) ==
    LET valid_role == m.role = "user" \/ m.role = "system" \/ m.role = "assistant"
    IN  IF ~valid_role THEN ErrRole
        ELSE IF m.content = "" THEN ErrContent
        ELSE IF m.created_at > t THEN ErrCreatedAt
        ELSE Ok

\* Message::new taking the caller's count whenever the caller gave one.
MessageNewPreferringSupplied(id, role, content, tokens, model, created_at, total) ==
    IF total.ok /\ tokens = 0
    THEN Message(id, role, content, total.value, model, created_at)
    ELSE Message(id, role, content, tokens, model, created_at)

\* Message::new, total being what get_completion_max_tokens(&model.name, content) returned:
\* Ok(total_tokens) or Err(_)
MessageNew(id, role, content, tokens, model, created_at, total) ==
    IF total.ok
    THEN Message(id, role, content, total.value, model, created_at)
    ELSE Message(id, role, content, tokens, model, created_at)

\* ------------------------------------------------------------------ inputs
TokenValues == {0, 1, 2, WordMax}
Budgets == {0, 2, WordMax}
Statuses == {"active", "ended", "invalid"}
\* Counter values a chat is constructed with (consistent with its history or not).
InitUsages == {0, 1, WordMax}

\* Messages submitted to a chat: well formed ones and ones Message::validate rejects.
Msgs ==
    {Message(1, "user", "hi", t, "gpt-4", 0) : t \in TokenValues}
        \cup {Message(1, "", "", 1, "gpt-4", MaxTime)}
\* Messages a chat is constructed with.
InitMsgs == {Message(1, "user", "hi", t, "gpt-4", 0) : t \in TokenValues \ {0}}
\* Messages handed to Message::validate.
ValidateMsgs ==
    {Message(1, r, c, 1, "gpt-4", t) :
        r \in {"system", "user", "assistant", "", "tool"}, c \in {"", "hi"}, t \in Times}

\* Outcomes of the tokenizer call: Err(_), or Ok(n).
NoTokens == [ok |-> FALSE, value |-> 0]
Tokenized == {NoTokens} \cup {[ok |-> TRUE, value |-> n] : n \in TokenValues}
\* Arguments handed to Message::new (tokens is the caller-supplied count).
NewMsgArgs ==
    {Message(i, "user", c, t, m, MaxTime) :
        i \in {1, 2}, c \in {"", "hi"}, t \in {0, WordMax}, m \in {"gpt-4", "unknown-model"}}

SeqsUpTo(S, n) == UNION {[1 .. k -> S] : k \in 0 .. n}

\* A call leaves the chat alone and records what it returned.
Returns(op, m, res, ret) ==
    /\ prev_op' = last_op
    /\ last_op' = op
    /\ arg' = m
    /\ result' = res
    /\ returned' = ret
    /\ ok_adds' = IF op = "add_message" /\ res = Ok THEN ok_adds + 1 ELSE ok_adds

Running == result # Panic

\* ------------------------------------------------------------------ construction
\* Chat::new with the arguments of a new conversation: active, empty history, usage 0.
Init ==
    /\ messages = <<>>
    /\ erased_messages = <<>>
    /\ status = "active"
    /\ token_usage = 0
    /\ config \in {[max_tokens |-> b] : b \in Budgets}
    /\ overflow_checks \in BOOLEAN
    /\ now = 0
    /\ prev_op = "-"
    /\ last_op = "new"
    /\ arg = NoMsg
    /\ result = Ok
    /\ returned = <<>>
    /\ total_tokens = NoTokens
    /\ ok_adds = 0

\* Chat::new stores whatever it is given: any history, status and counter.
InitNew ==
    /\ messages \in SeqsUpTo(InitMsgs, MaxMsgs)
    /\ erased_messages \in SeqsUpTo({Message(1, "user", "hi", WordMax, "gpt-4", 0)}, 1)
    /\ Len(messages) + Len(erased_messages) <= MaxMsgs
    /\ status \in Statuses
    /\ token_usage \in InitUsages
    /\ config \in {[max_tokens |-> b] : b \in Budgets}
    /\ overflow_checks \in BOOLEAN
    /\ now = 0
    /\ prev_op = "-"
    /\ last_op = "new"
    /\ arg = NoMsg
    /\ result = Ok
    /\ returned = <<>>
    /\ total_tokens = NoTokens
    /\ ok_adds = 0

\* ------------------------------------------------------------------ Chat operations
\* What a call leaves behind: its result and the fields add_message may write.
Outcome(res, msgs, erased, usage) ==
    [result |-> res, messages |-> msgs, erased_messages |-> erased, token_usage |-> usage]

\* Chat::add_message past the ended test: the admission test, then the push and the
\* refresh, or the push onto erased_messages. An overflowing addition panics where it
\* stands when the build checks overflow.
AdmitOrErase(message) ==
    IF overflow_checks /\ UsizeAdd(message.tokens, token_usage).overflow
    THEN Outcome(Panic, messages, erased_messages, token_usage)
    ELSE IF Admits(config.max_tokens, message.tokens, token_usage)
    THEN LET pushed == Append(messages, Clone(message))
             f == Refreshed(pushed, token_usage)
         IN  IF overflow_checks /\ f.overflow
             THEN Outcome(Panic, pushed, erased_messages, token_usage)
             ELSE Outcome(Ok, pushed, erased_messages, f.value)
    ELSE Outcome(Ok, messages, Append(erased_messages, Clone(message)), token_usage)

\* add_message checking the message with Message::validate before admitting it.
AddMessageStepValidating(message) ==
    IF IsEnded(status)
    THEN Outcome(ErrChatEnded, messages, erased_messages, token_usage)
    ELSE IF MessageValidate(message, now) # Ok
    THEN Outcome(MessageValidate(message, now), messages, erased_messages, token_usage)
    ELSE AdmitOrErase(message)

\* Chat::add_message as a function of the chat and the message
AddMessageStep(message) ==
    IF IsEnded(status)
    THEN Outcome(ErrChatEnded, messages, erased_messages, token_usage)
    ELSE AdmitOrErase(message)

\* Chat::add_message
AddMessage(message) ==
    /\ Running
    /\ IsEnded(status) \/ Len(messages) + Len(erased_messages) < MaxMsgs
    /\ LET o == AddMessageStep(message)
       IN  /\ messages' = o.messages
           /\ erased_messages' = o.erased_messages
           /\ token_usage' = o.token_usage
           /\ Returns("add_message", message, o.result, <<>>)
    /\ UNCHANGED <<status, config, overflow_checks, now, total_tokens>>

\* Chat::refresh_token_usage
RefreshTokenUsage ==
    /\ Running
    /\ LET f == Refreshed(messages, token_usage)
       IN  IF overflow_checks /\ f.overflow
           THEN /\ token_usage' = token_usage
                /\ Returns("refresh_token_usage", NoMsg, Panic, <<>>)
           ELSE /\ token_usage' = f.value
                /\ Returns("refresh_token_usage", NoMsg, Ok, <<>>)
    /\ UNCHANGED <<messages, erased_messages, status, config, overflow_checks, now, total_tokens>>

\* get_messages handing out the history by moving it out of the chat.
GetMessagesTaking ==
    /\ Running
    /\ messages' = <<>>
    /\ UNCHANGED <<erased_messages, status, token_usage, config>>
    /\ Returns("get_messages", NoMsg, Ok, messages)
    /\ UNCHANGED <<overflow_checks, now, total_tokens>>

\* Chat::get_messages
GetMessages ==
    /\ Running
    /\ UNCHANGED chat
    /\ Returns("get_messages", NoMsg, Ok, [i \in 1 .. Len(messages) |-> Clone(messages[i])])
    /\ UNCHANGED <<overflow_checks, now, total_tokens>>

\* Chat::count_messages
CountMessages ==
    /\ Running
    /\ UNCHANGED chat
    /\ Returns("count_messages", NoMsg, Ok, Len(messages))
    /\ UNCHANGED <<overflow_checks, now, total_tokens>>

\* end() that only closes a chat it finds active.
EndIfActive ==
    /\ Running
    /\ status' = IF status = "active" THEN "ended" ELSE status
    /\ UNCHANGED <<messages, erased_messages, token_usage, config>>
    /\ Returns("end", NoMsg, Ok, <<>>)
    /\ UNCHANGED <<overflow_checks, now, total_tokens>>

\* end() that flips the status.
EndToggling ==
    /\ Running
    /\ status' = IF status = "ended" THEN "active" ELSE "ended"
    /\ UNCHANGED <<messages, erased_messages, token_usage, config>>
    /\ Returns("end", NoMsg, Ok, <<>>)
    /\ UNCHANGED <<overflow_checks, now, total_tokens>>

\* end() writing a status nothing else recognises.
EndMisspelled ==
    /\ Running
    /\ status' = "end"
    /\ UNCHANGED <<messages, erased_messages, token_usage, config>>
    /\ Returns("end", NoMsg, Ok, <<>>)
    /\ UNCHANGED <<overflow_checks, now, total_tokens>>

\* Chat::end
End ==
    /\ Running
    /\ status' = "ended"
    /\ UNCHANGED <<messages, erased_messages, token_usage, config>>
    /\ Returns("end", NoMsg, Ok, <<>>)
    /\ UNCHANGED <<overflow_checks, now, total_tokens>>

\* Chat::validate, called by the owner of the chat
Validate ==
    /\ Running
    /\ UNCHANGED chat
    /\ Returns("validate", NoMsg, ChatValidate(status, token_usage, config.max_tokens), <<>>)
    /\ UNCHANGED <<overflow_checks, now, total_tokens>>

\* The caller changes the Vec it got from get_messages: push, pop, or overwrite an entry.
MutateReturned ==
    /\ Running
    /\ last_op = "get_messages"
    /\ \/ /\ Len(returned) < MaxMsgs
          /\ returned' = Append(returned, Message(2, "assistant", "bye", 1, "gpt-4", 0))
       \/ /\ returned # <<>>
          /\ returned' = Tail(returned)
       \/ /\ returned # <<>>
          /\ returned' = [returned EXCEPT ![1] = Message(2, "system", "", WordMax, "gpt-4", 0)]
    /\ prev_op' = last_op
    /\ last_op' = "mutate_returned"
    /\ arg' = NoMsg
    /\ result' = Ok
    /\ UNCHANGED chat
    /\ UNCHANGED <<overflow_checks, now, total_tokens, ok_adds>>

Next ==
    \/ \E m \in Msgs : AddMessage(m)
    \/ RefreshTokenUsage
    \/ GetMessages
    \/ CountMessages
    \/ End
    \/ Validate
    \/ MutateReturned

\* A conversation created empty and active, driven through the Chat operations.
Spec == Init /\ [][Next]_vars

\* A chat built by Chat::new from arbitrary arguments, driven through the Chat operations.
SpecNew == InitNew /\ [][Next]_vars

\* ------------------------------------------------------------------ Message operations
\* Message::validate on a message, the clock reading t
ValidateMessage(m, t) ==
    /\ now' = t
    /\ Returns("message.validate", m, MessageValidate(m, t), <<>>)
    /\ UNCHANGED chat
    /\ UNCHANGED <<overflow_checks, total_tokens>>

\* Message::new: the tokenizer is called and the message is built from its outcome
NewMessage(id, role, content, tokens, model, created_at, total) ==
    /\ total_tokens' = total
    /\ Returns("message.new", Message(id, role, content, tokens, model, created_at), Ok,
               MessageNew(id, role, content, tokens, model, created_at, total))
    /\ UNCHANGED chat
    /\ UNCHANGED <<overflow_checks, now>>

NextMessage ==
    \/ \E m \in ValidateMsgs, t \in Times : ValidateMessage(m, t)
    \/ \E m \in NewMsgArgs, total \in Tokenized :
          NewMessage(m.id, m.role, m.content, m.tokens, m.model, m.created_at, total)

\* Messages of every shape handed to Message::validate at every clock reading.
SpecMessage == Init /\ [][NextMessage]_vars

\* ================================================================== claims

RECURSIVE SumOfTokens(_)
\* The sum, over the integers, of the token counts of a list of messages.
SumOfTokens(msgs) == IF msgs = <<>> THEN 0 ELSE Head(msgs).tokens + SumOfTokens(Tail(msgs))

\* C1 - Budget invariant: in a chat created active and empty with token_usage = 0, after
\* every add_message, refresh_token_usage and end call, token_usage <= config.max_tokens.
BudgetInvariant == token_usage <= config.max_tokens

\* A chat that has admitted messages up to exactly its budget and has erased another.
BudgetWitness ==
    /\ last_op = "add_message"
    /\ messages # <<>>
    /\ erased_messages # <<>>
    /\ token_usage > 0
    /\ token_usage = config.max_tokens

\* C2 - Usage never drifts: in every state reachable from a chat created empty with
\* token_usage = 0, token_usage equals the sum of the tokens of the entries of messages.
UsageIsSumOfTokens == token_usage = SumOfTokens(messages)

\* C3 - Admission determinism: on a chat that is not ended, add_message(msg) appends msg to
\* messages if and only if msg.tokens + token_usage <= config.max_tokens, and otherwise
\* appends it to erased_messages and leaves messages and token_usage unchanged.
AdmissionDeterminism ==
    [][(last_op' = "add_message" /\ status # "ended") =>
          IF arg'.tokens + token_usage <= config.max_tokens
          THEN /\ messages' = Append(messages, arg')
               /\ erased_messages' = erased_messages
          ELSE /\ erased_messages' = Append(erased_messages, arg')
               /\ messages' = messages
               /\ token_usage' = token_usage]_vars

\* C4 - Terminal lock: on a chat whose status is "ended" (by end() or by construction),
\* every add_message fails with the "already ended" error and leaves messages,
\* erased_messages and token_usage unchanged.
TerminalLock ==
    [][(status = "ended" /\ last_op' = "add_message") =>
          /\ result' = ErrChatEnded
          /\ UNCHANGED <<messages, erased_messages, token_usage>>]_vars

\* A chat with history, closed by end(), whose next add_message was refused.
TerminalLockWitness ==
    /\ prev_op = "end"
    /\ last_op = "add_message"
    /\ result = ErrChatEnded
    /\ status = "ended"
    /\ messages # <<>>

\* C5 - One-way lifecycle: the only status transition is active -> ended, made by end();
\* an ended chat stays ended under every operation, and no other operation changes status.
OneWayLifecycle ==
    [][/\ status = "ended" => status' = "ended"
       /\ status' # status =>
             (status = "active" /\ status' = "ended" /\ last_op' = "end")]_vars

\* A chat closed by end() that has since been refreshed and is still ended.
OneWayLifecycleWitness ==
    /\ prev_op = "end"
    /\ last_op = "refresh_token_usage"
    /\ status = "ended"
    /\ messages # <<>>

\* C6 - end() is unconditional and idempotent: from any status it sets status to "ended"
\* and changes no other field; on a chat already ended it changes nothing at all.
EndUnconditional ==
    [][last_op' = "end" =>
          /\ status' = "ended"
          /\ UNCHANGED <<messages, erased_messages, token_usage, config>>
          /\ status = "ended" => UNCHANGED chat]_vars

\* end() called twice in a row on a chat with history.
EndTwiceWitness ==
    /\ prev_op = "end"
    /\ last_op = "end"
    /\ status = "ended"
    /\ messages # <<>>
    /\ erased_messages # <<>>

\* C7 - Idempotent refresh: for any history and any prior counter, the counter left by
\* refresh_token_usage() is the one a second refresh_token_usage() computes and leaves.
RefreshIdempotent ==
    /\ []((last_op = "refresh_token_usage" /\ result = Ok) =>
             token_usage = Refreshed(messages, token_usage).value)
    /\ [][(last_op = "refresh_token_usage" /\ last_op' = "refresh_token_usage") =>
             token_usage' = token_usage]_vars

\* refresh_token_usage() called twice in a row on a chat with a non-zero usage.
RefreshTwiceWitness ==
    /\ prev_op = "refresh_token_usage"
    /\ last_op = "refresh_token_usage"
    /\ result = Ok
    /\ token_usage > 0

\* C8 - Chat.validate() is read-only and returns "invalid status" when status is neither
\* active nor ended, else "invalid token usage" exactly when token_usage > max_tokens,
\* else success.
ChatValidateResult ==
    [][last_op' = "validate" =>
          /\ result' = IF status \notin {"active", "ended"} THEN ErrChatStatus
                       ELSE IF token_usage > config.max_tokens THEN ErrChatTokenUsage
                       ELSE Ok
          /\ UNCHANGED chat]_vars

\* validate() on a chat with an invalid status and a usage over budget: the status wins.
ChatValidateWitness ==
    /\ last_op = "validate"
    /\ status = "invalid"
    /\ token_usage > config.max_tokens
    /\ result = ErrChatStatus

MessageValidateOrder ==
    last_op = "message.validate" =>
        result = IF arg.role \notin {"system", "user", "assistant"} THEN ErrRole
                 ELSE IF arg.content = "" THEN ErrContent
                 ELSE IF arg.created_at > now THEN ErrCreatedAt
                 ELSE Ok

\* A message failing all three checks is reported for its role.
MessageValidateWitness ==
    /\ last_op = "message.validate"
    /\ arg.role = ""
    /\ arg.content = ""
    /\ arg.created_at > now
    /\ result = ErrRole

\* C11 - Tokenizer fallback: Message construction always yields a message; its tokens is
\* the caller-supplied count exactly when the tokenizer fails and the tokenizer's result
\* when it succeeds; id, role, content, model and created_at are stored as supplied.
TokenizerFallback ==
    last_op = "message.new" =>
        /\ result = Ok
        /\ returned.tokens = IF total_tokens.ok THEN total_tokens.value ELSE arg.tokens
        /\ returned.id = arg.id
        /\ returned.role = arg.role
        /\ returned.content = arg.content
        /\ returned.model = arg.model
        /\ returned.created_at = arg.created_at

\* The tokenizer succeeded and its result replaced a different count given by the caller.
TokenizerFallbackWitness ==
    /\ last_op = "message.new"
    /\ total_tokens.ok
    /\ total_tokens.value # arg.tokens
    /\ arg.tokens # 0
    /\ returned.tokens = total_tokens.value

\* C12 - add_message preserves validity against prior drift: for any chat Chat::new can
\* build with a non-ended status, whatever its history and counter, if validate() succeeds
\* before add_message(msg) then validate() succeeds after it.
ValidityPreserved ==
    [][(/\ last_op' = "add_message"
        /\ status # "ended"
        /\ ChatValidate(status, token_usage, config.max_tokens) = Ok) =>
          ChatValidate(status', token_usage', config'.max_tokens) = Ok]_vars

\* C12, amended - the same, for the chats whose token_usage equals the sum of the tokens
\* of their messages (no drift at the time of the call).
ValidityPreservedWithoutDrift ==
    [][(/\ last_op' = "add_message"
        /\ status # "ended"
        /\ token_usage = SumOfTokens(messages)
        /\ ChatValidate(status, token_usage, config.max_tokens) = Ok) =>
          ChatValidate(status', token_usage', config'.max_tokens) = Ok]_vars

\* A chat built with a history, validated, that then admitted a message filling its budget.
ValidityPreservedWitness ==
    /\ prev_op = "validate"
    /\ last_op = "add_message"
    /\ result = Ok
    /\ ok_adds = 1
    /\ Len(messages) = 2
    /\ arg = messages[2]
    /\ arg.tokens > 0
    /\ token_usage = SumOfTokens(messages)
    /\ token_usage = config.max_tokens

\* C13 - add_message returns success whenever status is not "ended", whatever else the
\* status is: the message is admitted or erased, and being over budget is no error.
AddSucceedsUnlessEnded ==
    [][(last_op' = "add_message" /\ status # "ended") =>
          /\ result' = Ok
          /\ \/ messages' = Append(messages, arg') /\ erased_messages' = erased_messages
             \/ erased_messages' = Append(erased_messages, arg') /\ messages' = messages]_vars

\* C14 - Append-only accounting: every successful add_message(msg) appends a copy of msg
\* to the end of exactly one of messages / erased_messages and leaves the other list and
\* the stored entries as they were, and nothing else touches the lists; so
\* count_messages() + length(erased_messages) is the number of successful add_message calls.
AppendOnlyAccounting ==
    /\ [](Len(messages) + Len(erased_messages) = ok_adds)
    /\ [](last_op = "count_messages" => returned + Len(erased_messages) = ok_adds)
    /\ [][IF last_op' = "add_message" /\ result' = Ok
          THEN \/ messages' = Append(messages, arg') /\ erased_messages' = erased_messages
               \/ erased_messages' = Append(erased_messages, arg') /\ messages' = messages
          ELSE messages' = messages /\ erased_messages' = erased_messages]_vars

\* Two successful calls, one message admitted and one erased, then counted.
AppendOnlyWitness ==
    /\ last_op = "count_messages"
    /\ returned = 1
    /\ ok_adds = 2
    /\ Len(messages) = 1
    /\ Len(erased_messages) = 1

\* C15 - refresh_token_usage() touches only the counter and never fails: for any status
\* and any prior counter it sets token_usage to the sum of the tokens of messages and
\* leaves messages, erased_messages, status and config unchanged.
RefreshSetsSum ==
    [][last_op' = "refresh_token_usage" =>
          /\ result' = Ok
          /\ token_usage' = SumOfTokens(messages)
          /\ UNCHANGED <<messages, erased_messages, status, config>>]_vars

\* What the caller can tell of an add_message call: its result, how long each list is
\* afterwards, and the resulting token_usage.
Admission(o) ==
    <<o.result, Len(o.messages), Len(o.erased_messages), o.token_usage>>

\* C16 - Admission ignores message well-formedness: from the same chat state, two messages
\* with equal tokens (whatever their role, content or created_at, valid or not) get the
\* same outcome from add_message and leave the same token_usage.
AdmissionIgnoresForm ==
    \A m1 \in Msgs :
        \A m2 \in {m \in Msgs : m # m1 /\ m.tokens = m1.tokens} :
            Admission(AddMessageStep(m1)) = Admission(AddMessageStep(m2))

\* A message Message::validate rejects (empty role, empty content, future timestamp) has
\* been admitted next to a well formed one.
AdmissionIgnoresFormWitness ==
    /\ last_op = "add_message"
    /\ result = Ok
    /\ MessageValidate(arg, now) # Ok
    /\ Len(messages) = 2
    /\ messages[2] = arg
    /\ MessageValidate(messages[1], now) = Ok
    /\ messages[1].tokens = arg.tokens

\* C17 - Budget is never freed: in a chat created empty, token_usage never decreases, no
\* entry is ever removed from messages, and once a message with t tokens has been erased
\* no later message with at least t tokens is admitted.
BudgetNeverFreed ==
    [][/\ token_usage' >= token_usage
       /\ Len(messages') >= Len(messages)
       /\ SubSeq(messages', 1, Len(messages)) = messages
       /\ (/\ last_op' = "add_message"
           /\ \E i \in 1 .. Len(erased_messages) : arg'.tokens >= erased_messages[i].tokens)
             => messages' = messages]_vars

\* C18 - Status invariant and reachable validity: in every state a chat created active and
\* empty reaches through add_message, refresh_token_usage and end, status is active or
\* ended and validate() succeeds.
StatusAndValidity ==
    /\ status \in {"active", "ended"}
    /\ ChatValidate(status, token_usage, config.max_tokens) = Ok
    /\ last_op = "validate" => result = Ok

\* validate() succeeding on an ended chat that is full to its budget and has erased a message.
StatusAndValidityWitness ==
    /\ last_op = "validate"
    /\ result = Ok
    /\ status = "ended"
    /\ erased_messages # <<>>
    /\ token_usage > 0
    /\ token_usage = config.max_tokens

\* C19 - No wraparound admission: for every msg.tokens and token_usage of the word type,
\* add_message on a non-ended chat admits msg only when msg.tokens + token_usage, as a sum
\* of integers, is <= config.max_tokens; when that sum exceeds the word range msg is
\* erased and success returned, the call neither admitting it nor aborting.
NoWraparoundAdmission ==
    [][(last_op' = "add_message" /\ status # "ended") =>
          /\ result' # Panic
          /\ messages' # messages => arg'.tokens + token_usage <= config.max_tokens
          /\ arg'.tokens + token_usage > WordMax =>
                /\ result' = Ok
                /\ erased_messages' = Append(erased_messages, arg')
                /\ messages' = messages]_vars

====
